---- MODULE Spec2Model ----
(***************************************************************************)
(* Goal store of the personal finance assistant.                           *)
(*                                                                         *)
(* Two API layers keep goals in MongoDB:                                   *)
(*   - backend/app/api/v1/goals.py   (string _id, owner-scoped documents)  *)
(*   - backend/routes/finance_routes.py + core/db_service.py (ObjectId     *)
(*     _id; its filter {"_id": ObjectId(goal_id)} never matches a v1       *)
(*     document, so the two layers hold disjoint sets of goals).           *)
(*                                                                         *)
(* Every `await db.goals...` is one atomic step of the database; the code  *)
(* of a handler between two awaits runs at its own moment.  Several        *)
(* add_contribution requests can therefore be in flight at once.           *)
(*                                                                         *)
(* The goal planner (backend/app/services/goal_planner.py) is a set of     *)
(* pure functions; they are applied to arguments drawn when a run starts.  *)
(*                                                                         *)
(* Money of a goal is counted in whole currency units, the amounts of a    *)
(* capacity snapshot in hundredths.  Arithmetic is exact: a percentage or  *)
(* a rounded amount is the reduced fraction <<numerator, denominator>>;    *)
(* binary floating point is not modelled.  A timestamp is a day number:    *)
(* the clock starts at day 1, and datetime.max is day 3652059.             *)
(* Document fields that no modelled operation reads (name, description,    *)
(* category, priority, updated_at, ...) are left out.                      *)
(***************************************************************************)
EXTENDS Integers, Sequences, FiniteSets, TLC

MaxAmount == 2      \* largest contribution tried
MaxReqs   == 2      \* add_contribution requests (each may overlap the others)
MaxClock  == 2      \* last reading of the clock
MaxUpdates == 1     \* update_goal requests, of either layer, that reach the database
MaxCapacity == 10   \* largest available_for_savings / monthly_expenses, in hundredths
MaxNeeded  == 2     \* largest amount_needed of a goal plan
MaxMonths  == 2     \* largest months_to_goal of a goal plan
MaxDay     == 11    \* last day of a goal whose progress is computed
MaxSaved   == 12    \* largest current_amount of a goal whose progress is computed

\* Python's None for an Optional[datetime]; the clock starts at 1.
None == 0
\* Python's None for an Optional[float]; amounts are never negative.
NoneAmount == -1
\* Python's None for an Optional[str] / Optional[GoalStatus].
NoneStr == "None"

GoalIds   == {"g1"}
LegacyIds == {"L1"}
Reqs      == 1..MaxReqs

GoalStatus == {"active", "completed", "paused", "failed"}
allowed_statuses == {"active", "paused", "completed"}

Amounts == 1..MaxAmount
\* target_amount and current_amount a goal is created with: a goal starts
\* below, at or above its target
Targets        == {1, 2}
InitialAmounts == {0, 1}
\* target dates: the first day, the day after, and 30 days after the first
TargetDates    == {1, 2, 1 + 30}
Notes   == {NoneStr, "bonus"}

VARIABLES
    goals,      \* db.goals of the v1 layer: [goal_id -> document]
    initial,    \* history: current_amount each v1 goal was created with
    accepted,   \* history: sum of the amounts add_contribution answered 200 for
    written,    \* history: sum of the amounts whose update_one matched the goal
    reqs,       \* the add_contribution requests and where each one stands
    clock,      \* datetime.utcnow()
    updates,    \* update_goal writes applied so far
    response,   \* what the step just taken answered its caller (NoResponse if nothing)
    legacy,     \* goals collection of the legacy layer: [goal_id -> document]
    call,       \* a call of a GoalPlannerService function: its arguments and result
    cache,      \* ResponseCache.cache: the dict as its entries in insertion order
    used        \* history: the cached keys, least recently used (get hit or set) first

vars == <<goals, initial, accepted, written, reqs, clock, updates, response, legacy, call, cache, used>>

----------------------------------------------------------------------------
(* Pure helpers *)

RECURSIVE gcd(_, _)
gcd(a, b) == IF b = 0 THEN a ELSE gcd(b, a % b)

\* as Percentage, but the amount is not divided by the target
Percentage_Undivided(amount, target) ==
    IF target > 0 THEN <<amount * 100, 1>> ELSE <<0, 1>>

\* amount / target * 100 if target > 0 else 0, as a reduced fraction
Percentage(amount, target) ==
    IF target > 0
    THEN LET n == amount * 100
             g == gcd(n, target)
         IN  <<n \div g, target \div g>>
    ELSE <<0, 1>>

\* Exact fractions <<numerator, denominator>> with a positive denominator
Fraction(n, d) == LET g == gcd(IF n < 0 THEN -n ELSE n, d)
                  IN  IF n = 0 THEN <<0, 1>> ELSE <<n \div g, d \div g>>
\* x < y and x <= y, by whole parts first so that no product grows large
Floor(x) == x[1] \div x[2]
Less_OrEqual(x, y) ==
    IF Floor(x) # Floor(y) THEN Floor(x) < Floor(y)
    ELSE (x[1] % x[2]) * y[2] <= (y[1] % y[2]) * x[2]
Less(x, y) ==
    IF Floor(x) # Floor(y) THEN Floor(x) < Floor(y)
    ELSE (x[1] % x[2]) * y[2] < (y[1] % y[2]) * x[2]
LessEq(x, y) == ~ Less(y, x)

\* round(x, 2) of a fraction: the nearest hundredth, a tie going to the even one
Round2(x) ==
    LET n == x[1] * 100
        q == n \div x[2]
        r == n % x[2]
        h == IF 2 * r > x[2] THEN q + 1
             ELSE IF 2 * r < x[2] THEN q
             ELSE IF q % 2 = 0 THEN q ELSE q + 1
    IN  Fraction(h, 100)

\* x * (n / d), x + y, x - y, x / y (y > 0) and max(0, x) on fractions
Times(x, n, d) == Fraction(x[1] * n, x[2] * d)
Plus(x, y)     == Fraction(x[1] * y[2] + y[1] * x[2], x[2] * y[2])
Minus(x, y)    == Fraction(x[1] * y[2] - y[1] * x[2], x[2] * y[2])
Quotient(x, y) == Fraction(x[1] * y[2], x[2] * y[1])
MaxZero(x)     == IF x[1] > 0 THEN x ELSE <<0, 1>>

\* float('inf'), which round() hands back unchanged
inf == <<1, 0>>

\* round(x, 1) of a fraction or of inf
Round1(x) ==
    IF x = inf THEN inf
    ELSE LET n == x[1] * 10
             q == n \div x[2]
             r == n % x[2]
             h == IF 2 * r > x[2] THEN q + 1
                  ELSE IF 2 * r < x[2] THEN q
                  ELSE IF q % 2 = 0 THEN q ELSE q + 1
         IN  Fraction(h, 10)

\* int(a / b) for b > 0: Python's int() cuts a float towards zero
IntDiv(a, b) == IF a >= 0 THEN a \div b ELSE -((-a) \div b)

\* max(0, x)
Max0(x) == IF x > 0 THEN x ELSE 0

\* goal.get("completed_at"): the field, None when it is absent
GetCompletedAt(goal) == goal.completed_at

\* the document find_one hands to add_contribution, cut down to the fields
\* the handler goes on to read (lines 343-350)
FoundGoal(doc) ==
    [ current_amount |-> doc.current_amount,
      target_amount  |-> doc.target_amount,
      status         |-> doc.status,
      completed_at   |-> GetCompletedAt(doc) ]

\* GoalModel(...) as create_goal builds and stores it
GoalModel(goal, now) ==
    [ target_amount          |-> goal.target_amount,
      current_amount         |-> goal.current_amount,
      start_date             |-> now,
      target_date            |-> goal.target_date,
      status                 |-> "active",
      milestones             |-> <<>>,
      progress_percentage    |-> IF goal.target_amount > 0
                                 THEN Percentage(goal.current_amount, goal.target_amount)
                                 ELSE <<0, 1>>,
      last_contribution_date |-> None,
      total_contributed      |-> 0,
      completed_at           |-> None ]

\* GoalResponse(...) as get_goal, get_goals and get_goal_progress fill it
GoalResponse(id, goal) ==
    [ id                  |-> id,
      target_amount       |-> goal.target_amount,
      current_amount      |-> goal.current_amount,
      progress_percentage |-> goal.progress_percentage,
      status              |-> goal.status ]

\* GoalPlannerService.calculate_easy_strategy: 30% of what is available
calculate_easy_strategy(amount_needed, months_to_goal, financial_analysis) ==
    LET available       == financial_analysis.available_for_savings
        monthly_saving  == Times(available, 30, 100)
        adjusted_months == IF monthly_saving[1] <= 0 THEN inf
                           ELSE Quotient(<<amount_needed, 1>>, monthly_saving)
    IN  [ monthly_saving |-> Round2(monthly_saving),
          time_to_goal   |-> Round1(adjusted_months),
          breakdown      |-> [ from_available_savings |-> Round2(monthly_saving),
                               reduce_dining_out      |-> Round2(Times(monthly_saving, 4, 10)),
                               reduce_entertainment   |-> Round2(Times(monthly_saving, 3, 10)),
                               optimize_subscriptions |-> Round2(Times(monthly_saving, 3, 10)) ],
          additional_income_needed |-> <<0, 1>> ]

\* as calculate_moderate_strategy, but with 20% of what is available
calculate_moderate_strategy_Fifth(amount_needed, months_to_goal, financial_analysis) ==
    LET available       == financial_analysis.available_for_savings
        expenses        == financial_analysis.monthly_expenses
        from_savings    == Times(available, 20, 100)
        from_reduction  == Times(expenses, 10, 100)
        monthly_saving  == Plus(from_savings, from_reduction)
        adjusted_months == IF monthly_saving[1] <= 0 THEN inf
                           ELSE Quotient(<<amount_needed, 1>>, monthly_saving)
    IN  [ monthly_saving |-> Round2(monthly_saving),
          time_to_goal   |-> Round1(adjusted_months),
          breakdown      |-> [ from_available_savings |-> Round2(from_savings),
                               reduce_food_expenses   |-> Round2(Times(expenses, 4, 100)),
                               reduce_shopping        |-> Round2(Times(expenses, 3, 100)),
                               reduce_entertainment   |-> Round2(Times(expenses, 2, 100)),
                               optimize_utilities     |-> Round2(Times(expenses, 1, 100)) ],
          additional_income_needed |-> <<0, 1>> ]

\* GoalPlannerService.calculate_moderate_strategy: 60% of what is available
\* plus 10% of the expenses
calculate_moderate_strategy(amount_needed, months_to_goal, financial_analysis) ==
    LET available       == financial_analysis.available_for_savings
        expenses        == financial_analysis.monthly_expenses
        from_savings    == Times(available, 60, 100)
        from_reduction  == Times(expenses, 10, 100)
        monthly_saving  == Plus(from_savings, from_reduction)
        adjusted_months == IF monthly_saving[1] <= 0 THEN inf
                           ELSE Quotient(<<amount_needed, 1>>, monthly_saving)
    IN  [ monthly_saving |-> Round2(monthly_saving),
          time_to_goal   |-> Round1(adjusted_months),
          breakdown      |-> [ from_available_savings |-> Round2(from_savings),
                               reduce_food_expenses   |-> Round2(Times(expenses, 4, 100)),
                               reduce_shopping        |-> Round2(Times(expenses, 3, 100)),
                               reduce_entertainment   |-> Round2(Times(expenses, 2, 100)),
                               optimize_utilities     |-> Round2(Times(expenses, 1, 100)) ],
          additional_income_needed |-> <<0, 1>> ]

\* GoalPlannerService.calculate_aggressive_strategy: 90% of what is
\* available plus 20% of the expenses
calculate_aggressive_strategy(amount_needed, months_to_goal, financial_analysis) ==
    LET available         == financial_analysis.available_for_savings
        expenses          == financial_analysis.monthly_expenses
        from_savings      == Times(available, 90, 100)
        from_reduction    == Times(expenses, 20, 100)
        monthly_saving    == Plus(from_savings, from_reduction)
        adjusted_months   == IF monthly_saving[1] <= 0 THEN inf
                             ELSE Quotient(<<amount_needed, 1>>, monthly_saving)
        required_monthly  == Fraction(amount_needed, months_to_goal)
        additional_needed == MaxZero(Minus(required_monthly, monthly_saving))
    IN  [ monthly_saving |-> Round2(monthly_saving),
          time_to_goal   |-> Round1(adjusted_months),
          breakdown      |-> [ from_available_savings   |-> Round2(from_savings),
                               reduce_all_discretionary |-> Round2(from_reduction),
                               eliminate_subscriptions  |-> Round2(Times(expenses, 5, 100)),
                               minimize_dining_out      |-> Round2(Times(expenses, 8, 100)),
                               reduce_transport         |-> Round2(Times(expenses, 4, 100)),
                               other_cuts               |-> Round2(Times(expenses, 3, 100)) ],
          additional_income_needed |-> Round2(additional_needed) ]

\* as calculate_feasibility_score, but with < for <= at every threshold
calculate_feasibility_score_Below(strategy, financial_analysis) ==
    LET monthly_saving == strategy.monthly_saving
        available      == financial_analysis.available_for_savings
    IN  IF available[1] <= 0 THEN 0
        ELSE LET ratio == Quotient(monthly_saving, available)
             IN  IF Less(ratio, <<3, 10>>) THEN 95
                 ELSE IF Less(ratio, <<6, 10>>) THEN 75
                 ELSE IF Less(ratio, <<9, 10>>) THEN 50
                 ELSE 25

\* GoalPlannerService.calculate_feasibility_score
calculate_feasibility_score(strategy, financial_analysis) ==
    LET monthly_saving == strategy.monthly_saving
        available      == financial_analysis.available_for_savings
    IN  IF available[1] <= 0 THEN 0
        ELSE LET ratio == Quotient(monthly_saving, available)
             IN  IF LessEq(ratio, <<3, 10>>) THEN 95
                 ELSE IF LessEq(ratio, <<6, 10>>) THEN 75
                 ELSE IF LessEq(ratio, <<9, 10>>) THEN 50
                 ELSE 25

\* datetime.max as a day number (9999-12-31); day 1 is datetime.min
datetime_max == 3652059

\* as calculate_goal_progress, but on_track needs progress >= time_progress
\* where the status keeps the 90% threshold
calculate_goal_progress_OnTrackAtPar(goal, now) ==
    LET current             == goal.current_amount
        target              == goal.target_amount
        progress_percentage == Percentage(current, target)
        total_days          == goal.target_date - goal.start_date
        elapsed_days        == now - goal.start_date
        remaining_days      == goal.target_date - now
        time_progress       == IF total_days > 0
                               THEN Fraction(elapsed_days * 100, total_days)
                               ELSE <<0, 1>>
        threshold           == <<time_progress[1] * 9, time_progress[2] * 10>>
        on_track            == LessEq(time_progress, progress_percentage)
        projects            == current > 0 /\ elapsed_days > 0
        \* remaining_amount / daily_rate, daily_rate = current / elapsed_days
        remaining_amount    == target - current
        days_to_complete    == (remaining_amount * elapsed_days) \div current
        overflow            == projects /\ now + days_to_complete > datetime_max
    IN  IF overflow
        THEN [ error |-> "OverflowError" ]
        ELSE [ error                    |-> NoneStr,
               current_amount           |-> current,
               target_amount            |-> target,
               progress_percentage      |-> Round2(progress_percentage),
               amount_remaining         |-> target - current,
               time_progress_percentage |-> Round2(time_progress),
               days_elapsed             |-> elapsed_days,
               days_remaining           |-> Max0(remaining_days),
               on_track                 |-> on_track,
               projected_completion     |-> IF projects THEN now + days_to_complete
                                            ELSE None,
               status                   |-> IF Less(time_progress, progress_percentage)
                                            THEN "ahead"
                                            ELSE IF Less(progress_percentage, threshold)
                                            THEN "behind"
                                            ELSE "on_track" ]

\* GoalPlannerService.calculate_goal_progress(goal) at datetime.utcnow() = now.
\* now + timedelta(days=days_to_complete) raises OverflowError past
\* datetime.max; a datetime is kept as the day it falls on.
calculate_goal_progress(goal, now) ==
    LET current             == goal.current_amount
        target              == goal.target_amount
        progress_percentage == Percentage(current, target)
        total_days          == goal.target_date - goal.start_date
        elapsed_days        == now - goal.start_date
        remaining_days      == goal.target_date - now
        time_progress       == IF total_days > 0
                               THEN Fraction(elapsed_days * 100, total_days)
                               ELSE <<0, 1>>
        threshold           == <<time_progress[1] * 9, time_progress[2] * 10>>
        on_track            == LessEq(threshold, progress_percentage)
        projects            == current > 0 /\ elapsed_days > 0
        \* remaining_amount / daily_rate, daily_rate = current / elapsed_days
        remaining_amount    == target - current
        days_to_complete    == (remaining_amount * elapsed_days) \div current
        overflow            == projects /\ now + days_to_complete > datetime_max
    IN  IF overflow
        THEN [ error |-> "OverflowError" ]
        ELSE [ error                    |-> NoneStr,
               current_amount           |-> current,
               target_amount            |-> target,
               progress_percentage      |-> Round2(progress_percentage),
               amount_remaining         |-> target - current,
               time_progress_percentage |-> Round2(time_progress),
               days_elapsed             |-> elapsed_days,
               days_remaining           |-> Max0(remaining_days),
               on_track                 |-> on_track,
               projected_completion     |-> IF projects THEN now + days_to_complete
                                            ELSE None,
               status                   |-> IF Less(time_progress, progress_percentage)
                                            THEN "ahead"
                                            ELSE IF Less(progress_percentage, threshold)
                                            THEN "behind"
                                            ELSE "on_track" ]

\* "status_color" of generate_progress_visualization
status_color(progress) ==
    IF progress.on_track THEN "green"
    ELSE IF progress.status = "behind" THEN "red"
    ELSE "yellow"

\* generate_progress_visualization(goal, progress): the monthly checkpoints
\* and the status colour; i / months raises ZeroDivisionError when the goal
\* runs for less than 30 days
generate_progress_visualization(goal, progress) ==
    LET total_days == goal.target_date - goal.start_date
        months     == IntDiv(total_days, 30)
    IN  IF months = 0
        THEN [ error |-> "ZeroDivisionError" ]
        ELSE [ error        |-> NoneStr,
               checkpoints  |-> [ k \in 1..(months + 1) |->
                                    [ month           |-> k - 1,
                                      date            |-> goal.start_date
                                                            + (total_days * (k - 1)) \div months,
                                      expected_amount |-> Round2(Fraction(
                                            goal.target_amount * (k - 1), months)) ] ],
               actual_progress |-> [ k \in 1..Len(goal.milestones) |->
                                       [ date   |-> goal.milestones[k].date,
                                         amount |-> goal.milestones[k].amount ] ],
               status_color |-> status_color(progress) ]

\* as ContributionUpdate, but a goal completes only above its target (> for >=)
ContributionUpdate_StrictlyAbove(goal, contribution, now) ==
    LET new_amount   == goal.current_amount + contribution.amount
        new_progress == Percentage(new_amount, goal.target_amount)
        completes    == new_amount > goal.target_amount /\ goal.status = "active"
        new_status   == IF completes THEN "completed" ELSE goal.status
        completed_at == IF completes THEN now ELSE GetCompletedAt(goal)
        milestone    == [ date         |-> now,
                          amount       |-> new_amount,
                          percentage   |-> new_progress,
                          contribution |-> contribution.amount,
                          note         |-> contribution.note ]
    IN  [ set  |-> [ current_amount         |-> new_amount,
                     progress_percentage    |-> new_progress,
                     status                 |-> new_status,
                     completed_at           |-> completed_at,
                     last_contribution_date |-> now ],
          push |-> milestone,
          inc  |-> contribution.amount ]

\* lines 343-361 of add_contribution: everything between the two awaits
ContributionUpdate(goal, contribution, now) ==
    LET new_amount   == goal.current_amount + contribution.amount
        new_progress == Percentage(new_amount, goal.target_amount)
        completes    == new_amount >= goal.target_amount /\ goal.status = "active"
        new_status   == IF completes THEN "completed" ELSE goal.status
        completed_at == IF completes THEN now ELSE GetCompletedAt(goal)
        milestone    == [ date         |-> now,
                          amount       |-> new_amount,
                          percentage   |-> new_progress,
                          contribution |-> contribution.amount,
                          note         |-> contribution.note ]
    IN  [ set  |-> [ current_amount         |-> new_amount,
                     progress_percentage    |-> new_progress,
                     status                 |-> new_status,
                     completed_at           |-> completed_at,
                     last_contribution_date |-> now ],
          push |-> milestone,
          inc  |-> contribution.amount ]

\* as ApplyContribution, but total_contributed is $set to the amount
ApplyContribution_SetTotal(doc, update) ==
    [ doc EXCEPT
        !.current_amount         = update.set.current_amount,
        !.progress_percentage    = update.set.progress_percentage,
        !.status                 = update.set.status,
        !.completed_at           = update.set.completed_at,
        !.last_contribution_date = update.set.last_contribution_date,
        !.milestones             = Append(@, update.push),
        !.total_contributed      = update.inc ]

\* as ApplyContribution, but total_contributed is $inc-ed by the new
\* current_amount instead of the contribution
ApplyContribution_IncNewAmount(doc, update) ==
    [ doc EXCEPT
        !.current_amount         = update.set.current_amount,
        !.progress_percentage    = update.set.progress_percentage,
        !.status                 = update.set.status,
        !.completed_at           = update.set.completed_at,
        !.last_contribution_date = update.set.last_contribution_date,
        !.milestones             = Append(@, update.push),
        !.total_contributed      = @ + update.set.current_amount ]

\* as ApplyContribution, but milestones is $set to the new milestone
ApplyContribution_SetMilestones(doc, update) ==
    [ doc EXCEPT
        !.current_amount         = update.set.current_amount,
        !.progress_percentage    = update.set.progress_percentage,
        !.status                 = update.set.status,
        !.completed_at           = update.set.completed_at,
        !.last_contribution_date = update.set.last_contribution_date,
        !.milestones             = <<update.push>>,
        !.total_contributed      = @ + update.inc ]

\* as ApplyContribution, but current_amount is $inc-ed by the contribution
\* instead of $set to the amount the handler computed
ApplyContribution_IncAmount(doc, update) ==
    [ doc EXCEPT
        !.current_amount         = @ + update.inc,
        !.progress_percentage    = update.set.progress_percentage,
        !.status                 = update.set.status,
        !.completed_at           = update.set.completed_at,
        !.last_contribution_date = update.set.last_contribution_date,
        !.milestones             = Append(@, update.push),
        !.total_contributed      = @ + update.inc ]

\* db.goals.update_one({"_id": goal_id}, {"$set", "$push", "$inc"}) on a
\* document that matched
ApplyContribution(doc, update) ==
    [ doc EXCEPT
        !.current_amount         = update.set.current_amount,
        !.progress_percentage    = update.set.progress_percentage,
        !.status                 = update.set.status,
        !.completed_at           = update.set.completed_at,
        !.last_contribution_date = update.set.last_contribution_date,
        !.milestones             = Append(@, update.push),
        !.total_contributed      = @ + update.inc ]

\* the body add_contribution returns after its write
ContributionResult(update) ==
    [ new_amount          |-> update.set.current_amount,
      progress_percentage |-> update.set.progress_percentage,
      status              |-> update.set.status ]

\* the whole of add_contribution when nothing else touches the goal between
\* its find_one and its update_one
add_contribution(doc, contribution, now) ==
    ApplyContribution(doc, ContributionUpdate(FoundGoal(doc), contribution, now))

\* as ApplyGoalUpdate, but the $set also carries current_amount, at the
\* default of the goal schemas (0)
ApplyGoalUpdate_WithAmount(doc, goal_update) ==
    [ doc EXCEPT
        !.target_amount  = IF goal_update.target_amount # NoneAmount
                           THEN goal_update.target_amount ELSE @,
        !.target_date    = IF goal_update.target_date # None
                           THEN goal_update.target_date ELSE @,
        !.status         = IF goal_update.status # NoneStr
                           THEN goal_update.status ELSE @,
        !.current_amount = 0 ]

\* db.goals.update_one({"_id": goal_id}, {"$set": update_data}) of update_goal;
\* update_data holds the fields of GoalUpdate that were set and are not None
ApplyGoalUpdate(doc, goal_update) ==
    [ doc EXCEPT
        !.target_amount = IF goal_update.target_amount # NoneAmount
                          THEN goal_update.target_amount ELSE @,
        !.target_date   = IF goal_update.target_date # None
                          THEN goal_update.target_date ELSE @,
        !.status        = IF goal_update.status # NoneStr
                          THEN goal_update.status ELSE @ ]

\* update_data of the legacy update_goal applied by GoalService.update_goal
ApplyLegacyUpdate(doc, request) ==
    [ doc EXCEPT
        !.current_amount = IF request.current_amount # NoneAmount
                           THEN request.current_amount ELSE @,
        !.status         = IF request.status # NoneStr
                           THEN request.status ELSE @ ]

----------------------------------------------------------------------------
(* State *)

NoDoc == [absent |-> TRUE]

IdleReq ==
    [ pc |-> "idle", goal_id |-> "g1", amount |-> 0, note |-> NoneStr,
      goal |-> NoDoc, update |-> NoDoc ]

NoResponse == [ op |-> "none", status_code |-> 0, body |-> <<>> ]

NoCall == [ fn |-> "none" ]

Init ==
    /\ goals = <<>>
    /\ initial = <<>>
    /\ accepted = <<>>
    /\ written = <<>>
    /\ reqs = [r \in Reqs |-> IdleReq]
    /\ clock = 1
    /\ updates = 0
    /\ response = NoResponse
    /\ legacy = <<>>
    /\ cache = <<>>
    /\ used = <<>>
    /\ call = NoCall

----------------------------------------------------------------------------
(* Time *)

Tick ==
    /\ clock < MaxClock
    /\ clock' = clock + 1
    /\ response' = NoResponse
    /\ UNCHANGED <<goals, initial, accepted, written, reqs, updates, legacy, call, cache, used>>

----------------------------------------------------------------------------
(* v1 layer: backend/app/api/v1/goals.py *)

\* POST /api/v1/goals/ ; GoalCreate rejects target_amount <= 0 and
\* current_amount < 0 before the handler runs; the _id is a fresh ObjectId
create_goal(goal_id, goal) ==
    /\ goal_id \notin DOMAIN initial
    /\ IF goal.target_amount > 0 /\ goal.current_amount >= 0
       THEN /\ goals' = (goal_id :> GoalModel(goal, clock)) @@ goals
            /\ initial' = (goal_id :> goal.current_amount) @@ initial
            /\ accepted' = (goal_id :> 0) @@ accepted
            /\ written' = (goal_id :> 0) @@ written
            /\ response' = [ op |-> "create_goal", status_code |-> 201, body |-> <<>> ]
       ELSE /\ response' = [ op |-> "create_goal", status_code |-> 422, body |-> <<>> ]
            /\ UNCHANGED <<goals, initial, accepted, written>>
    /\ UNCHANGED <<reqs, clock, updates, legacy, call, cache, used>>

\* GET /api/v1/goals/ with an optional status filter
get_goals(status) ==
    LET found  == { id \in DOMAIN goals : status = NoneStr \/ goals[id].status = status }
        listed == IF found = {} THEN <<>>
                  ELSE LET id == CHOOSE i \in found : TRUE
                       IN  <<GoalResponse(id, goals[id])>>
    IN  /\ response' = [ op |-> "get_goals", status_code |-> 200, body |-> listed ]
        /\ UNCHANGED <<goals, initial, accepted, written, reqs, clock, updates, legacy, call, cache, used>>

\* GET /api/v1/goals/{goal_id}
get_goal(goal_id) ==
    /\ response' = IF goal_id \in DOMAIN goals
                   THEN [ op |-> "get_goal", status_code |-> 200,
                          body |-> <<GoalResponse(goal_id, goals[goal_id])>> ]
                   ELSE [ op |-> "get_goal", status_code |-> 404, body |-> <<>> ]
    /\ UNCHANGED <<goals, initial, accepted, written, reqs, clock, updates, legacy, call, cache, used>>

\* GET /api/v1/goals/{goal_id}/progress
get_goal_progress(goal_id) ==
    /\ response' =
          IF goal_id \notin DOMAIN goals
          THEN [ op |-> "get_goal_progress", status_code |-> 404, body |-> <<>> ]
          ELSE LET goal     == goals[goal_id]
                   progress == calculate_goal_progress(goal, clock)
                   visualization_data ==
                       IF progress.error # NoneStr THEN progress
                       ELSE generate_progress_visualization(goal, progress)
               IN  IF visualization_data.error # NoneStr
                   THEN \* an exception no handler catches
                        [ op |-> "get_goal_progress", status_code |-> 500,
                          body |-> <<visualization_data.error>> ]
                   ELSE [ op |-> "get_goal_progress", status_code |-> 200,
                          body |-> <<[ goal                 |-> GoalResponse(goal_id, goal),
                                       progress             |-> progress,
                                       milestones           |-> goal.milestones,
                                       visualization_data   |-> visualization_data,
                                       on_track             |-> progress.on_track,
                                       projected_completion |-> progress.projected_completion ]>> ]
    /\ UNCHANGED <<goals, initial, accepted, written, reqs, clock, updates, legacy, call, cache, used>>

\* PUT /api/v1/goals/{goal_id} ; GoalUpdate rejects target_amount <= 0
update_goal(goal_id, goal_update) ==
    /\ IF goal_update.target_amount # NoneAmount /\ goal_update.target_amount <= 0
       THEN /\ response' = [ op |-> "update_goal", status_code |-> 422, body |-> <<>> ]
            /\ UNCHANGED <<goals, updates>>
       ELSE IF goal_id \notin DOMAIN goals
       THEN /\ response' = [ op |-> "update_goal", status_code |-> 404, body |-> <<>> ]
            /\ UNCHANGED <<goals, updates>>
       ELSE /\ updates < MaxUpdates
            /\ goals' = [goals EXCEPT ![goal_id] = ApplyGoalUpdate(@, goal_update)]
            /\ updates' = updates + 1
            /\ response' = [ op |-> "update_goal", status_code |-> 200, body |-> <<>> ]
    /\ UNCHANGED <<initial, accepted, written, reqs, clock, legacy, call, cache, used>>

\* DELETE /api/v1/goals/{goal_id}
delete_goal(goal_id) ==
    /\ IF goal_id \in DOMAIN goals
       THEN /\ goals' = [id \in DOMAIN goals \ {goal_id} |-> goals[id]]
            /\ response' = [ op |-> "delete_goal", status_code |-> 200, body |-> <<>> ]
       ELSE /\ response' = [ op |-> "delete_goal", status_code |-> 404, body |-> <<>> ]
            /\ UNCHANGED goals
    /\ UNCHANGED <<initial, accepted, written, reqs, clock, updates, legacy, call, cache, used>>

\* as GoalContribution, but amount is checked with ge=0
GoalContribution_NonNegative(contribution) == contribution.amount >= 0

\* GoalContribution: amount = Field(..., gt=0); a body that fails is answered
\* 422 before the handler is entered
GoalContribution(contribution) == contribution.amount > 0

\* POST /api/v1/goals/{goal_id}/contribute, up to the first await:
\* GoalContribution rejects amount <= 0, then find_one reads the goal.
\* Requests are interchangeable, so request r goes after request r-1.
add_contribution_find_one(r, goal_id, contribution) ==
    /\ reqs[r].pc = "idle"
    /\ \A q \in Reqs : q < r => reqs[q].pc # "idle"
    /\ IF ~ GoalContribution(contribution)
       THEN /\ response' = [ op |-> "add_contribution", status_code |-> 422, body |-> <<>> ]
            /\ UNCHANGED reqs
       ELSE IF goal_id \notin DOMAIN goals
       THEN /\ response' = [ op |-> "add_contribution", status_code |-> 404, body |-> <<>> ]
            /\ UNCHANGED reqs
       ELSE /\ reqs' = [reqs EXCEPT ![r] =
                  [ IdleReq EXCEPT !.pc = "found", !.goal_id = goal_id,
                                   !.amount = contribution.amount,
                                   !.note = contribution.note,
                                   !.goal = FoundGoal(goals[goal_id]) ] ]
            /\ response' = NoResponse
    /\ UNCHANGED <<goals, initial, accepted, written, clock, updates, legacy, call, cache, used>>

\* the handler resumes with the document it read and builds the update
add_contribution_compute(r) ==
    /\ reqs[r].pc = "found"
    /\ reqs' = [reqs EXCEPT ![r].pc = "computed",
                            ![r].update = ContributionUpdate(
                                reqs[r].goal,
                                [amount |-> reqs[r].amount, note |-> reqs[r].note],
                                clock)]
    /\ response' = NoResponse
    /\ UNCHANGED <<goals, initial, accepted, written, clock, updates, legacy, call, cache, used>>

\* second await: update_one is applied (to nothing if the goal is gone) and
\* the handler returns success without looking at the result
add_contribution_update_one(r) ==
    /\ reqs[r].pc = "computed"
    /\ LET id == reqs[r].goal_id
       IN  /\ goals' = IF id \in DOMAIN goals
                       THEN [goals EXCEPT ![id] = ApplyContribution(@, reqs[r].update)]
                       ELSE goals
           /\ written' = IF id \in DOMAIN goals
                         THEN [written EXCEPT ![id] = @ + reqs[r].amount]
                         ELSE written
           /\ accepted' = [accepted EXCEPT ![id] = @ + reqs[r].amount]
           /\ reqs' = [reqs EXCEPT ![r] = [IdleReq EXCEPT !.pc = "done"]]
           /\ response' = [ op |-> "add_contribution", status_code |-> 200,
                            body |-> <<ContributionResult(reqs[r].update)>> ]
    /\ UNCHANGED <<initial, clock, updates, legacy, call, cache, used>>

----------------------------------------------------------------------------
(* Legacy layer: backend/routes/finance_routes.py, backend/core/db_service.py *)

\* POST /goals/add ; CreateGoalRequest rejects target_amount <= 0.  No legacy
\* handler reads the stored target_amount again, so the document keeps only
\* current_amount and status.
legacy_create_goal(goal_id, request) ==
    /\ goal_id \notin DOMAIN legacy
    /\ IF request.target_amount > 0 /\ request.current_amount >= 0
       THEN /\ legacy' = (goal_id :> [ current_amount |-> request.current_amount,
                                       status         |-> "active" ]) @@ legacy
            /\ response' = [ op |-> "legacy_create_goal", status_code |-> 200, body |-> <<>> ]
       ELSE /\ response' = [ op |-> "legacy_create_goal", status_code |-> 422, body |-> <<>> ]
            /\ UNCHANGED legacy
    /\ UNCHANGED <<goals, initial, accepted, written, reqs, clock, updates, call, cache, used>>

\* PUT /goals/update/{goal_id}
legacy_update_goal(goal_id, request) ==
    /\ IF request.current_amount = NoneAmount /\ request.status = NoneStr
       THEN \* "No fields to update"
            /\ response' = [ op |-> "legacy_update_goal", status_code |-> 200, body |-> <<FALSE>> ]
            /\ UNCHANGED <<legacy, updates>>
       ELSE IF goal_id \notin DOMAIN legacy
       THEN /\ response' = [ op |-> "legacy_update_goal", status_code |-> 200, body |-> <<FALSE>> ]
            /\ UNCHANGED <<legacy, updates>>
       ELSE /\ updates < MaxUpdates
            /\ legacy' = [legacy EXCEPT ![goal_id] = ApplyLegacyUpdate(@, request)]
            /\ updates' = updates + 1
            /\ response' = [ op |-> "legacy_update_goal", status_code |-> 200, body |-> <<TRUE>> ]
    /\ UNCHANGED <<goals, initial, accepted, written, reqs, clock, call, cache, used>>

----------------------------------------------------------------------------
(* Specifications *)

\* Requests that pass the pydantic schema
GoalCreateInputs ==
    [ target_amount : Targets, current_amount : InitialAmounts, target_date : {1 + 30} ]

\* the same with target dates before, at and after the day of the request
GoalCreateDatedInputs ==
    [ target_amount : Targets, current_amount : InitialAmounts, target_date : TargetDates ]

GoalUpdateInputs ==
    { [ target_amount |-> t, target_date |-> None, status |-> NoneStr ] : t \in Targets }
    \cup { [ target_amount |-> NoneAmount, target_date |-> None, status |-> st ] :
                st \in {"active", "paused", "completed"} }

\* updates that move the target date
GoalUpdateDateInputs ==
    { [ target_amount |-> NoneAmount, target_date |-> d, status |-> NoneStr ] :
          d \in TargetDates }

\* odd amounts come with a note, even amounts without
GoalContributionInputs ==
    { [ amount |-> a, note |-> IF a % 2 = 1 THEN "bonus" ELSE NoneStr ] : a \in Amounts }

CreateGoalRequestInputs ==
    [ target_amount : Targets, current_amount : InitialAmounts ]

UpdateGoalRequestInputs ==
    { [ current_amount |-> a, status |-> NoneStr ] : a \in {NoneAmount} \cup (0..MaxAmount) }
    \cup { [ current_amount |-> NoneAmount, status |-> st ] : st \in allowed_statuses }

\* Requests that the schema refuses
GoalCreateRefused       == [ target_amount : {0}, current_amount : {0}, target_date : {1 + 30} ]
GoalUpdateRefused       == [ target_amount : {0}, target_date : {None}, status : {NoneStr} ]
GoalContributionRefused == [ amount : {-1, 0}, note : {NoneStr} ]

CreateGoal      == \E id \in GoalIds, g \in GoalCreateInputs : create_goal(id, g)
GetGoals        == \E st \in {NoneStr} \cup GoalStatus : get_goals(st)
GetGoal         == \E id \in GoalIds : get_goal(id)
GetGoalProgress == \E id \in GoalIds : get_goal_progress(id)
UpdateGoal      == \E id \in GoalIds, u \in GoalUpdateInputs : update_goal(id, u)
DeleteGoal      == \E id \in GoalIds : delete_goal(id)
CreateGoalDated == \E id \in GoalIds, g \in GoalCreateDatedInputs : create_goal(id, g)
UpdateGoalDate  == \E id \in GoalIds, u \in GoalUpdateDateInputs : update_goal(id, u)
ContributeFind  == \E r \in Reqs, id \in GoalIds, c \in GoalContributionInputs :
                       add_contribution_find_one(r, id, c)
ContributeCompute == \E r \in Reqs : add_contribution_compute(r)
ContributeWrite   == \E r \in Reqs : add_contribution_update_one(r)
\* a contribution that arrives when no other contribution is in flight
ContributeFindAlone ==
    /\ \A q \in Reqs : reqs[q].pc \in {"idle", "done"}
    /\ ContributeFind
RefuseCreateGoal   == \E id \in GoalIds, g \in GoalCreateRefused : create_goal(id, g)
RefuseUpdateGoal   == \E id \in GoalIds, u \in GoalUpdateRefused : update_goal(id, u)
RefuseContribution == \E r \in Reqs, id \in GoalIds, c \in GoalContributionRefused :
                          add_contribution_find_one(r, id, c)
LegacyCreateGoal == \E id \in LegacyIds, g \in CreateGoalRequestInputs :
                        legacy_create_goal(id, g)
LegacyUpdateGoal == \E id \in LegacyIds, u \in UpdateGoalRequestInputs :
                        legacy_update_goal(id, u)

\* The write path of the v1 layer: goals are created, updated and contributed
\* to, and the contributions overlap freely.  No handler branches on the
\* value of a timestamp, so the path is followed at one reading of the
\* clock; SpecLedger and SpecProgress let time pass.
Next ==
    \/ CreateGoal
    \/ UpdateGoal
    \/ ContributeFind
    \/ ContributeCompute
    \/ ContributeWrite

Spec == Init /\ [][Next]_vars

\* The contribution ledger alone: one goal and overlapping contributions.
NextLedger ==
    \/ Tick
    \/ CreateGoal
    \/ ContributeFind
    \/ ContributeCompute
    \/ ContributeWrite

SpecLedger == Init /\ [][NextLedger]_vars

\* Every goal handler of the v1 layer, refused requests included;
\* contributions come one after another.
NextApi ==
    \/ CreateGoal
    \/ GetGoals
    \/ GetGoal
    \/ GetGoalProgress
    \/ UpdateGoal
    \/ DeleteGoal
    \/ ContributeFindAlone
    \/ ContributeCompute
    \/ ContributeWrite
    \/ RefuseCreateGoal
    \/ RefuseUpdateGoal
    \/ RefuseContribution

SpecApi == Init /\ [][NextApi]_vars

\* The goal handlers of both layers side by side: what reads a goal and what
\* writes one.
NextSystem ==
    \/ CreateGoal
    \/ GetGoals
    \/ GetGoal
    \/ GetGoalProgress
    \/ UpdateGoal
    \/ ContributeFindAlone
    \/ ContributeCompute
    \/ ContributeWrite
    \/ LegacyCreateGoal
    \/ LegacyUpdateGoal

SpecSystem == Init /\ [][NextSystem]_vars

\* Goals with their dates: time passes, goals are created with any target
\* date, the target date is moved, contributions come one after another and
\* the progress of a goal is asked for.
NextProgress ==
    \/ Tick
    \/ CreateGoalDated
    \/ UpdateGoalDate
    \/ ContributeFindAlone
    \/ ContributeCompute
    \/ ContributeWrite
    \/ GetGoalProgress

SpecProgress == Init /\ [][NextProgress]_vars

----------------------------------------------------------------------------
(* Goal planner: backend/app/services/goal_planner.py *)

\* A capacity snapshot as analyze_financial_capacity returns it: amounts
\* rounded to hundredths; the expenses are never negative, what is
\* available can be
FinancialAnalyses ==
    { [ available_for_savings |-> Fraction(a, 100),
        monthly_expenses      |-> Fraction(e, 100) ] :
          a \in (-2)..MaxCapacity, e \in 0..MaxCapacity }

\* the arguments of a goal plan, before any strategy is computed
PlanCalls ==
    { [ fn |-> "args", amount_needed |-> n, months_to_goal |-> m,
        financial_analysis |-> fa, strategies |-> <<>>, strategy |-> NoneStr,
        feasibility_score |-> 0 ] :
          n \in 0..MaxNeeded, m \in 1..MaxMonths, fa \in FinancialAnalyses }

InitPlanner ==
    /\ goals = <<>>
    /\ initial = <<>>
    /\ accepted = <<>>
    /\ written = <<>>
    /\ reqs = [r \in Reqs |-> IdleReq]
    /\ clock = 1
    /\ updates = 0
    /\ response = NoResponse
    /\ legacy = <<>>
    /\ cache = <<>>
    /\ used = <<>>
    /\ call \in PlanCalls

\* the three strategies of generate_goal_plan (lines 39-56)
generate_goal_plan ==
    /\ call.fn = "args"
    /\ call' = [ call EXCEPT
          !.fn = "generate_goal_plan",
          !.strategies =
              [ easy       |-> calculate_easy_strategy(
                                   call.amount_needed, call.months_to_goal,
                                   call.financial_analysis),
                moderate   |-> calculate_moderate_strategy(
                                   call.amount_needed, call.months_to_goal,
                                   call.financial_analysis),
                aggressive |-> calculate_aggressive_strategy(
                                   call.amount_needed, call.months_to_goal,
                                   call.financial_analysis) ] ]
    /\ UNCHANGED <<goals, initial, accepted, written, reqs, clock, updates, response, legacy, cache, used>>

\* calculate_feasibility_score of one of the strategies, as
\* generate_ai_recommendations calls it (lines 296-299)
generate_ai_recommendations(recommended) ==
    /\ call.fn = "generate_goal_plan"
    /\ call' = [ call EXCEPT
          !.fn = "generate_ai_recommendations",
          !.strategy = recommended,
          !.feasibility_score = calculate_feasibility_score(
                                    call.strategies[recommended],
                                    call.financial_analysis) ]
    /\ UNCHANGED <<goals, initial, accepted, written, reqs, clock, updates, response, legacy, cache, used>>

\* Goals whose progress is computed: amounts below, at and above a target
\* of 10, a goal without a target, and a target so far away that the
\* projection leaves the calendar
TrackedGoals ==
    [ current_amount : 0..MaxSaved,
      target_amount  : {0, 10, datetime_max},
      start_date     : {1, 2},
      target_date    : 1..MaxDay,
      status         : {"active"},
      completed_at   : {None} ]

ProgressCalls ==
    { [ fn |-> "args", goal |-> g, now |-> n, progress |-> <<>>, update |-> <<>>,
        color |-> NoneStr ] :
          g \in TrackedGoals, n \in 1..MaxDay }

InitTracker ==
    /\ goals = <<>>
    /\ initial = <<>>
    /\ accepted = <<>>
    /\ written = <<>>
    /\ reqs = [r \in Reqs |-> IdleReq]
    /\ clock = 1
    /\ updates = 0
    /\ response = NoResponse
    /\ legacy = <<>>
    /\ cache = <<>>
    /\ used = <<>>
    /\ call \in ProgressCalls

\* planner.calculate_goal_progress(goal) as get_goal_progress calls it
CalculateGoalProgress ==
    /\ call.fn = "args"
    /\ call' = [ call EXCEPT !.fn = "calculate_goal_progress",
                              !.progress = calculate_goal_progress(call.goal, call.now) ]
    /\ UNCHANGED <<goals, initial, accepted, written, reqs, clock, updates, response, legacy, cache, used>>

\* the status colour get_goal_progress shows for the progress just computed
StatusColor ==
    /\ call.fn = "calculate_goal_progress"
    /\ call.progress.error = NoneStr
    /\ call' = [ call EXCEPT !.fn = "status_color",
                              !.color = status_color(call.progress) ]
    /\ UNCHANGED <<goals, initial, accepted, written, reqs, clock, updates, response, legacy, cache, used>>

\* what add_contribution computes for the goal (lines 343-361)
ComputeContribution ==
    /\ call.fn = "args"
    /\ \E contribution \in GoalContributionInputs :
          call' = [ call EXCEPT !.fn = "add_contribution",
                                !.update = ContributionUpdate(FoundGoal(call.goal),
                                                              contribution, call.now) ]
    /\ UNCHANGED <<goals, initial, accepted, written, reqs, clock, updates, response, legacy, cache, used>>

GenerateGoalPlan          == generate_goal_plan
GenerateAiRecommendations ==
    \E recommended \in {"easy", "moderate", "aggressive"} :
        generate_ai_recommendations(recommended)

\* The planner's strategies and their feasibility, for every goal plan
NextPlanner ==
    \/ GenerateGoalPlan
    \/ GenerateAiRecommendations

SpecPlanner == InitPlanner /\ [][NextPlanner]_vars

\* The progress tracker, for every goal and every day
NextTracker ==
    \/ CalculateGoalProgress
    \/ StatusColor
    \/ ComputeContribution

SpecTracker == InitTracker /\ [][NextTracker]_vars

----------------------------------------------------------------------------
(* Properties *)

\* the step is the update_one of request r's add_contribution
IsContributionWrite(r) == reqs[r].pc = "computed" /\ reqs'[r].pc = "done"

\* the requests that have got as far as reading the goal
Started == { r \in Reqs : reqs[r].pc # "idle" }

IsPrefix(s, t) == Len(s) <= Len(t) /\ SubSeq(t, 1, Len(s)) = s

\* C1: once two or more add_contribution requests on a goal have all
\* returned success, the stored current_amount is the amount the goal was
\* created with plus the sum of their amounts.
C1_NoContributionLost ==
    \A id \in DOMAIN goals :
        ( /\ Cardinality(Started) >= 2
          /\ \A r \in Started : reqs[r].pc = "done" /\ reqs[r].goal_id = id )
        => goals[id].current_amount = initial[id] + accepted[id]

\* C2: the update_one of an add_contribution never takes a goal whose stored
\* status is "completed" to another status.
C2_CompletedStaysCompleted ==
    [][ \A r \in Reqs :
          ( /\ IsContributionWrite(r)
            /\ reqs[r].goal_id \in DOMAIN goals
            /\ goals[reqs[r].goal_id].status = "completed" )
          => goals'[reqs[r].goal_id].status = "completed" ]_vars

\* C3: when add_contribution found the goal "active", its write leaves the
\* goal "completed" with completed_at set and answers "completed" if the
\* amount it read plus the contribution reaches the target it read, and
\* leaves the goal "active" otherwise.
C3_CompletesAtTarget ==
    [][ \A r \in Reqs :
          ( /\ IsContributionWrite(r)
            /\ reqs[r].goal_id \in DOMAIN goals
            /\ reqs[r].goal.status = "active" )
          => LET id == reqs[r].goal_id
                 after == goals'[id]
             IN  /\ response'.op = "add_contribution" /\ response'.status_code = 200
                 /\ after.current_amount = reqs[r].goal.current_amount + reqs[r].amount
                 /\ IF after.current_amount >= reqs[r].goal.target_amount
                    THEN /\ after.status = "completed"
                         /\ after.completed_at # None
                         /\ response'.body[1].status = "completed"
                    ELSE /\ after.status = "active"
                         /\ response'.body[1].status = "active" ]_vars

\* C3 witness: a contribution has just completed a goal exactly at its target
C3_Witness ==
    \E id \in DOMAIN goals :
        /\ response.op = "add_contribution" /\ response.status_code = 200
        /\ response.body[1].status = "completed"
        /\ goals[id].status = "completed"
        /\ goals[id].current_amount = goals[id].target_amount
        /\ goals[id].completed_at = goals[id].last_contribution_date
        /\ goals[id].completed_at # None

\* C4: the update_one of an add_contribution never overwrites or clears a
\* completed_at that is already recorded.
C4_CompletedAtKept ==
    [][ \A r \in Reqs :
          ( /\ IsContributionWrite(r)
            /\ reqs[r].goal_id \in DOMAIN goals
            /\ goals[reqs[r].goal_id].completed_at # None )
          => goals'[reqs[r].goal_id].completed_at = goals[reqs[r].goal_id].completed_at ]_vars

C6_TotalContributed ==
    [][ \A id \in DOMAIN goals' :
          /\ goals'[id].total_contributed = written'[id]
          /\ id \in DOMAIN goals =>
                goals'[id].total_contributed >= goals[id].total_contributed ]_vars

\* C6 witness: a goal that was contributed to twice and updated
C6_Witness ==
    \E id \in DOMAIN goals :
        /\ updates > 0
        /\ Len(goals[id].milestones) = 2
        /\ goals[id].total_contributed = 2 * MaxAmount

\* C7: every step leaves the milestones it found as a prefix of the new
\* list, and the write of an add_contribution appends exactly one milestone,
\* with that request's amount and note.
C7_MilestonesAppendOnly ==
    [][ \A id \in DOMAIN goals \cap DOMAIN goals' :
          /\ IsPrefix(goals[id].milestones, goals'[id].milestones)
          /\ \A r \in Reqs :
                (IsContributionWrite(r) /\ reqs[r].goal_id = id)
                => LET before == goals[id].milestones
                       after  == goals'[id].milestones
                   IN  /\ Len(after) = Len(before) + 1
                       /\ after[Len(after)].contribution = reqs[r].amount
                       /\ after[Len(after)].note = reqs[r].note ]_vars

\* C7 witness: two milestones of different contributions, on a goal that
\* update_goal has changed
C7_Witness ==
    \E id \in DOMAIN goals :
        /\ updates > 0
        /\ Len(goals[id].milestones) = 2
        /\ goals[id].milestones[1].note # goals[id].milestones[2].note
        /\ goals[id].milestones[1].contribution # goals[id].milestones[2].contribution

\* C8: the stored milestones are in the order of their dates.
C8_MilestonesByDate ==
    \A id \in DOMAIN goals :
        \A i \in 1..(Len(goals[id].milestones) - 1) :
            goals[id].milestones[i].date <= goals[id].milestones[i + 1].date

C10_ReportedProgress ==
    ( /\ response.op \in {"get_goal", "get_goals"}
      /\ response.status_code = 200
      /\ response.body # <<>> )
    => LET id == response.body[1].id
       IN  response.body[1].progress_percentage =
               Percentage(goals[id].current_amount, goals[id].target_amount)

\* C11: every stored goal has 0 <= current_amount; current_amount is above
\* target_amount only on a goal that a contribution completed; and an
\* active goal has current_amount < target_amount.
C11_AmountWithinTarget ==
    \A id \in DOMAIN goals :
        /\ goals[id].current_amount >= 0
        /\ goals[id].current_amount > goals[id].target_amount
              => goals[id].status = "completed"
        /\ goals[id].status = "active"
              => goals[id].current_amount < goals[id].target_amount

\* C12: every stored goal has target_date > start_date.
C12_TargetAfterStart ==
    \A id \in DOMAIN goals : goals[id].target_date > goals[id].start_date

\* C13: an add_contribution whose amount is <= 0 is refused and changes no
\* goal: a step answered 422 leaves every goal as it was, no request that
\* went past validation carries an amount <= 0, and no milestone records a
\* contribution <= 0.
C13_NonPositiveRefused ==
    [][ /\ (response'.op = "add_contribution" /\ response'.status_code = 422)
              => goals' = goals
        /\ \A r \in Reqs :
              reqs'[r].pc \in {"found", "computed"} => reqs'[r].amount > 0
        /\ \A id \in DOMAIN goals' :
              \A k \in 1..Len(goals'[id].milestones) :
                  goals'[id].milestones[k].contribution > 0 ]_vars

\* C13 witness: a contribution was just refused on a goal that holds an
\* earlier contribution
C13_Witness ==
    /\ response.op = "add_contribution"
    /\ response.status_code = 422
    /\ \E id \in DOMAIN goals :
          /\ Len(goals[id].milestones) > 0
          /\ goals[id].total_contributed > 0

\* C14: get_goal_progress on a stored goal with target_amount > 0 and
\* target_date > start_date answers with the goal-progress result: the
\* tracker output and the goal's milestones.  (One goal is stored at most,
\* so the answer is about that goal.)
C14_ProgressNeverRaises ==
    \A id \in DOMAIN goals :
        ( /\ response.op = "get_goal_progress"
          /\ goals[id].target_amount > 0
          /\ goals[id].target_date > goals[id].start_date )
        => /\ response.status_code = 200
           /\ response.body[1].progress = calculate_goal_progress(goals[id], clock)
           /\ response.body[1].milestones = goals[id].milestones

\* C15: an add_contribution that answers 200 has written to the goal: the
\* goal is stored when the write is issued, and afterwards it holds the
\* new_amount of the answer.
C15_SuccessMeansWritten ==
    [][ \A r \in Reqs :
          (IsContributionWrite(r) /\ response'.status_code = 200)
          => /\ reqs[r].goal_id \in DOMAIN goals'
             /\ goals'[reqs[r].goal_id].current_amount = response'.body[1].new_amount ]_vars

\* C16: when what is available is not negative, the aggressive strategy
\* saves at least as much a month as the moderate one, and the moderate
\* one at least as much as the easy one.
C16_StrategiesOrdered ==
    ( /\ call.fn = "generate_goal_plan"
      /\ call.financial_analysis.available_for_savings[1] >= 0 )
    => /\ LessEq(call.strategies.moderate.monthly_saving,
                 call.strategies.aggressive.monthly_saving)
       /\ LessEq(call.strategies.easy.monthly_saving,
                 call.strategies.moderate.monthly_saving)

\* C16 witness: a plan whose three strategies save three different amounts
C16_Witness ==
    /\ call.fn = "generate_goal_plan"
    /\ call.financial_analysis.available_for_savings[1] > 0
    /\ call.financial_analysis.monthly_expenses[1] > 0
    /\ call.amount_needed > 0
    /\ Less(call.strategies.easy.monthly_saving, call.strategies.moderate.monthly_saving)
    /\ Less(call.strategies.moderate.monthly_saving,
            call.strategies.aggressive.monthly_saving)

\* C17: the feasibility score is one of 0, 25, 50, 75, 95; it is 0 exactly
\* when available_for_savings <= 0; otherwise it is 95 when
\* monthly_saving <= 0.3 x available, 75 when <= 0.6 x, 50 when <= 0.9 x,
\* and 25 above that.
C17_FeasibilityScore ==
    call.fn = "generate_ai_recommendations"
    => LET score          == call.feasibility_score
           available      == call.financial_analysis.available_for_savings
           monthly_saving == call.strategies[call.strategy].monthly_saving
           upTo(n)        == LessEq(monthly_saving, Times(available, n, 10))
       IN  /\ score \in {0, 25, 50, 75, 95}
           /\ score = 0 <=> available[1] <= 0
           /\ available[1] > 0 =>
                 /\ score = 95 <=> upTo(3)
                 /\ score = 75 <=> (~ upTo(3) /\ upTo(6))
                 /\ score = 50 <=> (~ upTo(6) /\ upTo(9))
                 /\ score = 25 <=> ~ upTo(9)

\* C17 witness: a strategy that saves exactly 0.3 of what is available
C17_Witness ==
    /\ call.fn = "generate_ai_recommendations"
    /\ call.financial_analysis.available_for_savings[1] > 0
    /\ call.strategies[call.strategy].monthly_saving
           = Times(call.financial_analysis.available_for_savings, 3, 10)
    /\ call.feasibility_score = 95

\* C18: when 0 <= current_amount <= target_amount and target_amount > 0, the
\* progress_percentage that calculate_goal_progress returns, and the one
\* add_contribution computes for the amount it stores, lie in [0, 100];
\* when target_amount <= 0 they are 0.
C18_ProgressWithinBounds ==
    LET target  == call.goal.target_amount
        inRange(amount, percentage) ==
            /\ (0 <= amount /\ amount <= target /\ target > 0)
                  => (LessEq(<<0, 1>>, percentage) /\ LessEq(percentage, <<100, 1>>))
            /\ target <= 0 => percentage = <<0, 1>>
    IN  /\ (call.fn = "calculate_goal_progress" /\ call.progress.error = NoneStr)
              => inRange(call.goal.current_amount, call.progress.progress_percentage)
        /\ call.fn = "add_contribution"
              => inRange(call.update.set.current_amount,
                         call.update.set.progress_percentage)

\* C18 witness: a contribution that brings a goal exactly to its target
C18_Witness ==
    /\ call.fn = "add_contribution"
    /\ call.goal.current_amount > 0
    /\ call.update.set.current_amount = call.goal.target_amount
    /\ call.update.set.progress_percentage = <<100, 1>>

\* C19: with p = current/target (0 without a target) and t = elapsed/total
\* (0 when the goal has no days), the status is "ahead" when p > t, "behind"
\* when p < 0.9 t, and "on_track" otherwise; on_track is p >= 0.9 t; and
\* with half of the time gone and 40% saved the goal is "behind" and not on
\* track.
C19_StatusClassification ==
    (call.fn = "calculate_goal_progress" /\ call.progress.error = NoneStr)
    => LET goal    == call.goal
           total   == goal.target_date - goal.start_date
           elapsed == call.now - goal.start_date
           pn      == IF goal.target_amount > 0 THEN goal.current_amount ELSE 0
           pd      == IF goal.target_amount > 0 THEN goal.target_amount ELSE 1
           tn      == IF total > 0 THEN elapsed ELSE 0
           td      == IF total > 0 THEN total ELSE 1
           ahead   == pn * td > tn * pd
           behind  == 10 * pn * td < 9 * tn * pd
       IN  /\ ahead => call.progress.status = "ahead"
           /\ behind => call.progress.status = "behind"
           /\ (~ ahead /\ ~ behind) => call.progress.status = "on_track"
           /\ call.progress.on_track <=> ~ behind
           /\ (10 * pn = 4 * pd /\ 2 * tn = td)
                 => (call.progress.status = "behind" /\ ~ call.progress.on_track)

\* C19 witness: half of the time gone, 40% saved
C19_Witness ==
    /\ call.fn = "calculate_goal_progress"
    /\ call.goal.target_amount = 10
    /\ call.goal.current_amount = 4
    /\ call.goal.target_date - call.goal.start_date = 10
    /\ call.now - call.goal.start_date = 5
    /\ call.progress.status = "behind"

\* C20: calculate_goal_progress returns; its projected_completion is None
\* exactly when current_amount <= 0 or elapsed_days <= 0; otherwise it is
\* the day on which now + (target - current) / (current / elapsed_days)
\* days falls.
C20_ProjectedCompletion ==
    call.fn = "calculate_goal_progress"
    => LET goal    == call.goal
           current == goal.current_amount
           elapsed == call.now - goal.start_date
           due     == call.now * current + (goal.target_amount - current) * elapsed
       IN  /\ call.progress.error = NoneStr
           /\ call.progress.projected_completion = None
                 <=> (current <= 0 \/ elapsed <= 0)
           /\ (current > 0 /\ elapsed > 0)
                 => LET day == call.progress.projected_completion
                    IN  day * current <= due /\ due < (day + 1) * current

\* the sum of the sub-amounts of a breakdown
RECURSIVE BreakdownSum(_, _)
BreakdownSum(breakdown, names) ==
    IF names = {} THEN <<0, 1>>
    ELSE LET name == CHOOSE n \in names : TRUE
         IN  Plus(breakdown[name], BreakdownSum(breakdown, names \ {name}))

\* C21: for each strategy the sub-amounts of its breakdown sum to its
\* monthly_saving within rounding: every amount is rounded to a hundredth,
\* so the sum is off by at most half a hundredth for each sub-amount and
\* for the monthly_saving itself.
C21_BreakdownSums ==
    call.fn = "generate_goal_plan"
    => \A name \in DOMAIN call.strategies :
          LET strategy == call.strategies[name]
              names    == DOMAIN strategy.breakdown
              total    == BreakdownSum(strategy.breakdown, names)
              slack    == <<Cardinality(names) + 1, 200>>
          IN  /\ LessEq(total, Plus(strategy.monthly_saving, slack))
              /\ LessEq(strategy.monthly_saving, Plus(total, slack))

----------------------------------------------------------------------------
(* Response cache: core/response_cache.py.  The dict is the sequence of its
   entries in insertion order; assigning to a key that is present keeps the
   key's place, assigning to a new key appends it.  The md5 digest of
   get_key is taken to be free of collisions. *)

max_size == 2

Prompts      == {"p1", "p2"}
MaxTokens    == {1, 2}
Temperatures == {7}
Responses    == {"r1", "r2"}

\* f"{prompt}|{max_tokens}|{temperature}": the three arguments side by side
get_key(prompt, max_tokens, temperature) == <<prompt, max_tokens, temperature>>

\* the keys of a dict
CacheKeys(entries) == { entries[i].key : i \in 1..Len(entries) }

\* entries[key], for a key that is present
CacheLookup(entries, key) ==
    LET i == CHOOSE j \in 1..Len(entries) : entries[j].key = key
    IN  entries[i].response

\* entries[key] = resp
CacheAssign(entries, key, resp) ==
    IF key \in CacheKeys(entries)
    THEN [ i \in 1..Len(entries) |->
             IF entries[i].key = key
             THEN [ key |-> key, response |-> resp ]
             ELSE entries[i] ]
    ELSE Append(entries, [ key |-> key, response |-> resp ])

\* the order of use once key is used and only the keys in kept remain
Touch(order, kept, key) ==
    Append(SelectSeq(order, LAMBDA k : k \in kept /\ k # key), key)

InitCache ==
    /\ goals = <<>>
    /\ initial = <<>>
    /\ accepted = <<>>
    /\ written = <<>>
    /\ reqs = [r \in Reqs |-> IdleReq]
    /\ clock = 1
    /\ updates = 0
    /\ response = NoResponse
    /\ legacy = <<>>
    /\ call = NoCall
    /\ cache = <<>>
    /\ used = <<>>

get(prompt, max_tokens, temperature) ==
    LET key == get_key(prompt, max_tokens, temperature)
        hit == key \in CacheKeys(cache)
    IN  /\ call' = [ fn |-> "get", key |-> key,
                     response |-> IF hit THEN CacheLookup(cache, key) ELSE NoneStr ]
        /\ used' = IF hit THEN Touch(used, CacheKeys(cache), key) ELSE used
        /\ UNCHANGED <<goals, initial, accepted, written, reqs, clock, updates,
                       response, legacy, cache>>

set(prompt, max_tokens, temperature, resp) ==
    LET kept    == IF Len(cache) >= max_size THEN Tail(cache) ELSE cache
        key     == get_key(prompt, max_tokens, temperature)
        entries == CacheAssign(kept, key, resp)
    IN  /\ cache' = entries
        /\ call' = [ fn |-> "set", key |-> key, response |-> resp ]
        /\ used' = Touch(used, CacheKeys(entries), key)
        /\ UNCHANGED <<goals, initial, accepted, written, reqs, clock, updates,
                       response, legacy>>

CacheGet ==
    \E prompt \in Prompts, max_tokens \in MaxTokens, temperature \in Temperatures :
        get(prompt, max_tokens, temperature)

CacheSet ==
    \E prompt \in Prompts, max_tokens \in MaxTokens, temperature \in Temperatures,
       resp \in Responses :
        set(prompt, max_tokens, temperature, resp)

NextCache ==
    \/ CacheGet
    \/ CacheSet

SpecCache == InitCache /\ [][NextCache]_vars

\* C22: the cache is least-recently-used: an entry that a set takes out of
\* the cache is the one whose last use (a get hit or a set) is the oldest.
C22_EvictsLeastRecentlyUsed ==
    [][ call'.fn = "set"
        => \A key \in CacheKeys(cache) \ CacheKeys(cache') : key = Head(used) ]_vars

\* C23: a set leaves at most max_size entries, a set on a key that is
\* already cached takes no entry out, and the entry just set is what the
\* next get with the same arguments returns.
C23_SetKeepsEntries ==
    [][ call'.fn = "set"
        => /\ Len(cache') <= max_size
           /\ call'.key \in CacheKeys(cache)
                 => CacheKeys(cache) \subseteq CacheKeys(cache')
           /\ call'.key \in CacheKeys(cache')
           /\ CacheLookup(cache', call'.key) = call'.response ]_vars

\* C24: a goal with at least one milestone stores, as its current_amount,
\* the amount of its last milestone, however the add_contribution and
\* update_goal requests interleave.
C24_LastMilestoneIsCurrent ==
    \A id \in DOMAIN goals :
        LET milestones == goals[id].milestones
        IN  Len(milestones) >= 1
            => milestones[Len(milestones)].amount = goals[id].current_amount

\* two contributions that both read the goal before either wrote
C24_Witness ==
    \E id \in DOMAIN goals :
        /\ Len(goals[id].milestones) = 2
        /\ goals[id].current_amount # initial[id] + written[id]

\* the sum of the contribution fields of a list of milestones
RECURSIVE ContributionSum(_)
ContributionSum(milestones) ==
    IF milestones = <<>> THEN 0
    ELSE Head(milestones).contribution + ContributionSum(Tail(milestones))

\* C25: total_contributed of a goal is the sum of the contribution fields
\* of its milestones, and the amount of each milestone after the first is
\* the amount of the milestone before it plus its own contribution.
C25_MilestonesChain ==
    \A id \in DOMAIN goals :
        LET milestones == goals[id].milestones
        IN  /\ goals[id].total_contributed = ContributionSum(milestones)
            /\ \A i \in 2..Len(milestones) :
                  milestones[i].amount
                      = milestones[i - 1].amount + milestones[i].contribution

\* C26: the update_one of an add_contribution either leaves the stored
\* status as it is or takes it from "active" to "completed"; a status that
\* update_goal stored after the handler read the goal is therefore kept.
C26_OnlyCompletes ==
    [][ \A r \in Reqs :
          ( IsContributionWrite(r) /\ reqs[r].goal_id \in DOMAIN goals )
          => LET before == goals[reqs[r].goal_id].status
                 after  == goals'[reqs[r].goal_id].status
             IN  after = before \/ (before = "active" /\ after = "completed") ]_vars

\* C27: whatever create_goal, add_contribution and update_goal requests
\* have run, a stored goal has status "completed" exactly when its
\* completed_at is set.
C27_CompletedIffCompletedAt ==
    \A id \in DOMAIN goals :
        goals[id].status = "completed" <=> goals[id].completed_at # None

\* C28: for a goal with current_amount >= 0, on any day, on_track is false
\* exactly when the status is "behind", so the status colour is "green" or
\* "red" and never "yellow".
C28_NeverYellow ==
    ( /\ call.fn \in {"calculate_goal_progress", "status_color"}
      /\ call.progress.error = NoneStr
      /\ call.goal.current_amount >= 0 )
    => /\ (~ call.progress.on_track) <=> call.progress.status = "behind"
       /\ call.fn = "status_color" => call.color \in {"green", "red"}

\* C28 witness: a goal behind its schedule is shown red
C28_Witness ==
    /\ call.fn = "status_color"
    /\ call.goal.current_amount > 0
    /\ call.progress.status = "behind"
    /\ ~ call.progress.on_track
    /\ call.color = "red"

\* C29: the aggressive strategy's additional_income_needed is 0 exactly
\* when its time_to_goal is at most months_to_goal, and positive exactly
\* when its time_to_goal is above months_to_goal or unbounded.
C29_AdditionalIncome ==
    call.fn = "generate_goal_plan"
    => LET aggressive == call.strategies.aggressive
           needed     == aggressive.additional_income_needed
           within     == /\ aggressive.time_to_goal # inf
                         /\ LessEq(aggressive.time_to_goal, <<call.months_to_goal, 1>>)
       IN  /\ needed = <<0, 1>> <=> within
           /\ Less(<<0, 1>>, needed) <=> ~ within

----------------------------------------------------------------------------
(* Financial capacity: GoalPlannerService.analyze_financial_capacity on the
   list of transactions get_recent_transactions returns.  Amounts are whole
   units, a date is kept as its month, averages are exact fractions. *)

MaxTxs == 2

TxMonths     == {1, 2}
TxAmounts    == {1, 3}
TxCategories == {"food", "rent"}

\* the income and expense transactions of the last months
Transactions ==
    [ type : {"income"}, amount : TxAmounts, month : TxMonths, category : {"salary"} ]
    \cup [ type : {"expense"}, amount : TxAmounts, month : TxMonths,
           category : TxCategories ]

\* money set aside: transactions of type "investment" or "savings"
SetAside ==
    [ type : {"investment", "savings"}, amount : {1}, month : TxMonths,
      category : {"savings_deposit"} ]

\* sum(tx["amount"] for tx in txs)
RECURSIVE AmountSum(_)
AmountSum(txs) ==
    IF txs = <<>> THEN 0 ELSE Head(txs).amount + AmountSum(Tail(txs))

\* [tx for tx in transactions if tx["type"] == type]
OfType(transactions, type) == SelectSeq(transactions, LAMBDA tx : tx.type = type)

analyze_financial_capacity(transactions, profile) ==
    LET income_txs     == OfType(transactions, "income")
        expense_txs    == OfType(transactions, "expense")
        total_income   == AmountSum(income_txs)
        total_expenses == AmountSum(expense_txs)
        months         == { transactions[i].month : i \in 1..Len(transactions) }
        months_count   == IF Cardinality(months) = 0 THEN 1 ELSE Cardinality(months)
        monthly_income        == Fraction(total_income, months_count)
        monthly_expenses      == Fraction(total_expenses, months_count)
        available_for_savings == Minus(monthly_income, monthly_expenses)
        categories     == { expense_txs[i].category : i \in 1..Len(expense_txs) }
        category_expenses ==
            [ cat \in categories |->
                Fraction(AmountSum(SelectSeq(expense_txs, LAMBDA tx : tx.category = cat)),
                         months_count) ]
    IN  [ monthly_income        |-> Round2(monthly_income),
          monthly_expenses      |-> Round2(monthly_expenses),
          available_for_savings |-> Round2(available_for_savings),
          savings_rate          |-> IF monthly_income[1] > 0
                                    THEN Round2(Times(Quotient(available_for_savings,
                                                               monthly_income), 100, 1))
                                    ELSE <<0, 1>>,
          category_expenses     |-> category_expenses,
          risk_profile          |-> IF profile = NoneStr THEN "moderate" ELSE profile ]

RECURSIVE ListsUpTo(_, _)
ListsUpTo(items, n) ==
    IF n = 0 THEN { <<>> }
    ELSE LET shorter == ListsUpTo(items, n - 1)
         IN  shorter \cup { Append(l, x) : l \in shorter, x \in items }

\* a user's recent transactions, and one more that sets money aside
CapacityCalls ==
    { [ fn |-> "args", transactions |-> txs, added |-> tx, profile |-> profile,
        analysis |-> <<>>, analysis_added |-> <<>> ] :
          txs \in ListsUpTo(Transactions, MaxTxs), tx \in SetAside,
          profile \in {NoneStr, "aggressive"} }

InitCapacity ==
    /\ goals = <<>>
    /\ initial = <<>>
    /\ accepted = <<>>
    /\ written = <<>>
    /\ reqs = [r \in Reqs |-> IdleReq]
    /\ clock = 1
    /\ updates = 0
    /\ response = NoResponse
    /\ legacy = <<>>
    /\ cache = <<>>
    /\ used = <<>>
    /\ call \in CapacityCalls

\* the capacity of the user as the transactions stand
AnalyzeFinancialCapacity ==
    /\ call.fn = "args"
    /\ call' = [ call EXCEPT
          !.fn = "analyze_financial_capacity",
          !.analysis = analyze_financial_capacity(call.transactions, call.profile) ]
    /\ UNCHANGED <<goals, initial, accepted, written, reqs, clock, updates, response,
                   legacy, cache, used>>

\* the capacity once the transaction that sets money aside is recorded too
AnalyzeWithSetAside ==
    /\ call.fn = "analyze_financial_capacity"
    /\ call' = [ call EXCEPT
          !.fn = "analyze_with_set_aside",
          !.analysis_added = analyze_financial_capacity(
                                 Append(call.transactions, call.added), call.profile) ]
    /\ UNCHANGED <<goals, initial, accepted, written, reqs, clock, updates, response,
                   legacy, cache, used>>

NextCapacity ==
    \/ AnalyzeFinancialCapacity
    \/ AnalyzeWithSetAside

SpecCapacity == InitCapacity /\ [][NextCapacity]_vars

\* C30: recording a transaction of type "investment" or "savings", in any
\* month, leaves monthly_income, monthly_expenses, available_for_savings
\* and the category averages of analyze_financial_capacity as they were.
C30_SetAsideIgnored ==
    call.fn = "analyze_with_set_aside"
    => /\ call.analysis_added.monthly_income = call.analysis.monthly_income
       /\ call.analysis_added.monthly_expenses = call.analysis.monthly_expenses
       /\ call.analysis_added.available_for_savings
             = call.analysis.available_for_savings
       /\ call.analysis_added.category_expenses = call.analysis.category_expenses

====
